---------------------------- MODULE Spec2Model ----------------------------
(***************************************************************************)
(* Blackjack Martingale simulator: the shoe, the hand resolver             *)
(* (blackjack_simulator.py), the Martingale driver and the single-run and  *)
(* Monte Carlo paths of the "Run Simulation" button (app.py).              *)
(*                                                                         *)
(* The sidebar's amounts are whole dollars.  The amounts the program       *)
(* computes (the bankroll, the bet, the payout, the ledger's bet, bankroll  *)
(* and profit columns) are held in half-dollars, twice the program's       *)
(* number: the 3:2 payout 1.5 * bet of a bet of 25 is 37.5, held as 75.    *)
(* The configurations explored use an integer multiplier, so that every    *)
(* bet is a whole number of dollars, every amount a whole number of        *)
(* half-dollars, and Python's float arithmetic on them is exact.           *)
(*                                                                         *)
(* Suits are written S, H, D, C for the source's suit symbols.             *)
(***************************************************************************)
EXTENDS Integers, Sequences, FiniteSets, TLC

VARIABLES
    pyrand,         \* state of Python's process-wide `random` generator
    nprand,         \* state of numpy's process-wide generator
    pc,             \* position of the script
    clicks,         \* number of times "Run Simulation" was pressed
    cfg,            \* the sidebar parameters of the current run
    iter,           \* i of the Monte Carlo loop (0 in a single run)
    cards,          \* shoe.cards
    bankroll,       \* simulate_martingale locals
    loss_streak,
    records,
    hand_num,
    current_bet,
    dealer,         \* simulate_blackjack_hand locals
    player,
    other_players,
    outcome,        \* (result, payout) returned by simulate_blackjack_hand
    trials          \* the DataFrames returned so far, with the seed and
                    \* parameters each was run under

vars == <<pyrand, nprand, pc, clicks, cfg, iter, cards, bankroll, loss_streak,
          records, hand_num, current_bet, dealer, player, other_players,
          outcome, trials>>

(***************************************************************************)
(* Bounds of the exploration.                                              *)
(***************************************************************************)
MaxEntropy == 23        \* initial states of `random`: random.seed(0..MaxEntropy)
MaxHands == 3           \* largest "Number of hands to simulate" explored
MaxClicks == 2          \* button presses in a session (SpecSession)
MaxRun == 5             \* longest run of the shoe's cards valued as a hand

(***************************************************************************)
(* Cards (blackjack_simulator.py lines 4-11).                              *)
(***************************************************************************)
RANKS == <<"2", "3", "4", "5", "6", "7", "8", "9", "10", "J", "Q", "K", "A">>
SUITS == <<"S", "H", "D", "C">>

Card(rank, suit) == [rank |-> rank, suit |-> suit]

VALUES(rank) ==
    CASE rank = "2" -> 2 [] rank = "3" -> 3 [] rank = "4" -> 4
      [] rank = "5" -> 5 [] rank = "6" -> 6 [] rank = "7" -> 7
      [] rank = "8" -> 8 [] rank = "9" -> 9 [] rank = "10" -> 10
      [] rank = "J" -> 10 [] rank = "Q" -> 10 [] rank = "K" -> 10
      [] rank = "A" -> 11

(***************************************************************************)
(* Python's `random` generator: the Mersenne Twister MT19937 of CPython's  *)
(* _randommodule.c, which random.shuffle (blackjack_simulator.py line 23)  *)
(* draws from.  A 32-bit word is held as <<high 16 bits, low 16 bits>>.    *)
(***************************************************************************)
\* a ^ b and a & b, bit by bit.
RECURSIVE XorBits(_, _)
XorBits(a, b) ==
    IF a = 0 THEN b
    ELSE IF b = 0 THEN a
    ELSE ((a + b) % 2) + 2 * XorBits(a \div 2, b \div 2)

RECURSIVE AndBits(_, _)
AndBits(a, b) ==
    IF a = 0 \/ b = 0 THEN 0
    ELSE (a % 2) * (b % 2) + 2 * AndBits(a \div 2, b \div 2)

\* The same for 4-bit numbers, tabulated: XorTable[a + 1][b + 1] = a ^ b.
RECURSIVE XorRow(_, _)
XorRow(a, n) ==
    IF n = 0 THEN <<>> ELSE Append(XorRow(a, n - 1), XorBits(a, n - 1))

RECURSIVE XorRows(_)
XorRows(n) == IF n = 0 THEN <<>> ELSE Append(XorRows(n - 1), XorRow(n - 1, 16))

XorTable == XorRows(16)

RECURSIVE AndRow(_, _)
AndRow(a, n) ==
    IF n = 0 THEN <<>> ELSE Append(AndRow(a, n - 1), AndBits(a, n - 1))

RECURSIVE AndRows(_)
AndRows(n) == IF n = 0 THEN <<>> ELSE Append(AndRows(n - 1), AndRow(n - 1, 16))

AndTable == AndRows(16)

\* a ^ b and a & b on 16 bits, four bits at a time.
Xor16(a, b) ==
    XorTable[(a % 16) + 1][(b % 16) + 1]
    + 16 * XorTable[((a \div 16) % 16) + 1][((b \div 16) % 16) + 1]
    + 256 * XorTable[((a \div 256) % 16) + 1][((b \div 256) % 16) + 1]
    + 4096 * XorTable[(a \div 4096) + 1][(b \div 4096) + 1]

And16(a, b) ==
    AndTable[(a % 16) + 1][(b % 16) + 1]
    + 16 * AndTable[((a \div 16) % 16) + 1][((b \div 16) % 16) + 1]
    + 256 * AndTable[((a \div 256) % 16) + 1][((b \div 256) % 16) + 1]
    + 4096 * AndTable[(a \div 4096) + 1][(b \div 4096) + 1]

Xor(x, y) == <<Xor16(x[1], y[1]), Xor16(x[2], y[2])>>

And(x, y) == <<And16(x[1], y[1]), And16(x[2], y[2])>>

\* 2^k, 0 <= k <= 16.
Pow2(k) ==
    <<1, 2, 4, 8, 16, 32, 64, 128, 256, 512, 1024, 2048, 4096, 8192, 16384,
      32768, 65536>>[k + 1]

\* x >> k and x << k on 32 bits, 0 < k < 32.
Shr(x, k) ==
    IF k >= 16 THEN <<0, x[1] \div Pow2(k - 16)>>
    ELSE <<x[1] \div Pow2(k),
           (x[2] \div Pow2(k)) + (x[1] % Pow2(k)) * Pow2(16 - k)>>

Shl(x, k) ==
    IF k >= 16 THEN <<(x[2] * Pow2(k - 16)) % 65536, 0>>
    ELSE <<((x[1] * Pow2(k)) % 65536) + (x[2] \div Pow2(16 - k)),
           (x[2] * Pow2(k)) % 65536>>

\* x + y and x - y modulo 2^32.
Add(x, y) ==
    <<(x[1] + y[1] + ((x[2] + y[2]) \div 65536)) % 65536,
      (x[2] + y[2]) % 65536>>

Sub(x, y) ==
    <<(x[1] + 65536 - y[1] - (IF x[2] < y[2] THEN 1 ELSE 0)) % 65536,
      (x[2] + 65536 - y[2]) % 65536>>

\* a * b modulo 2^16, and the 32-bit product of two 16-bit numbers, by
\* bytes of a.
MulLow16(a, b) ==
    ((a % 256) * b + (((a \div 256) * b) % 256) * 256) % 65536

Mul16(a, b) ==
    LET p0 == (a % 256) * b
        p1 == (a \div 256) * b
        lo == (p0 % 65536) + (p1 % 256) * 256
    IN  <<(p0 \div 65536) + (p1 \div 256) + (lo \div 65536), lo % 65536>>

\* x * y modulo 2^32.
Mul(x, y) ==
    LET low == Mul16(x[2], y[2])
    IN  <<(low[1] + MulLow16(x[1], y[2]) + MulLow16(x[2], y[1])) % 65536,
          low[2]>>

\* The generator's constants: the state size N and the shift M, and, as
\* words, 19650218, 1812433253, 1664525, 1566083941, MATRIX_A 0x9908b0df,
\* the tempering masks 0x9d2c5680 and 0xefc60000, and 0x80000000.
MT_N == 624
MT_M == 397
InitSeed == <<299, 54954>>
InitMult == <<27655, 35173>>
KeyMult1 == <<25, 26125>>
KeyMult2 == <<23896, 35685>>
MATRIX_A == <<39176, 45279>>
TemperB == <<40236, 22144>>
TemperC == <<61382, 0>>
UpperBit == <<32768, 0>>

\* mt[i] of the C source is mt[i + 1] here.
Mix(w) == Xor(w, Shr(w, 30))

\* init_genrand(s): mt[i] = 1812433253 * (mt[i-1] ^ (mt[i-1] >> 30)) + i.
InitGenrandStep(mt, i) ==
    Append(mt, Add(Mul(Mix(mt[i]), InitMult), <<0, i>>))

\* The wrap of init_by_array's index: i++; if (i >= N) mt[0] = mt[N-1], i = 1.
KeyAdvance(mt, i, key) ==
    IF i + 1 >= MT_N
    THEN [mt |-> [mt EXCEPT ![1] = mt[MT_N]], i |-> 1, key |-> key]
    ELSE [mt |-> mt, i |-> i + 1, key |-> key]

\* init_by_array's first loop, for a key of one word (j stays 0):
\* mt[i] = (mt[i] ^ ((mt[i-1] ^ (mt[i-1] >> 30)) * 1664525)) + key[0] + 0.
KeyStep1(st, t) ==
    LET mt == st.mt
        i  == st.i
        v  == Add(Xor(mt[i + 1], Mul(Mix(mt[i]), KeyMult1)), st.key)
    IN  KeyAdvance([mt EXCEPT ![i + 1] = v], i, st.key)

\* Its second loop:
\* mt[i] = (mt[i] ^ ((mt[i-1] ^ (mt[i-1] >> 30)) * 1566083941)) - i.
KeyStep2(st, t) ==
    LET mt == st.mt
        i  == st.i
        v  == Sub(Xor(mt[i + 1], Mul(Mix(mt[i]), KeyMult2)), <<0, i>>)
    IN  KeyAdvance([mt EXCEPT ![i + 1] = v], i, st.key)

\* genrand_uint32's regeneration of the N words, word kk (from 0):
\* y = (mt[kk] & UPPER_MASK) | (mt[kk+1] & LOWER_MASK);
\* mt[kk] = mt[kk+M] ^ (y >> 1) ^ (y odd ? MATRIX_A : 0), indices modulo N.
TwistStep(mt, kk) ==
    LET a == mt[kk + 1]
        b == mt[((kk + 1) % MT_N) + 1]
        y == <<(a[1] \div 32768) * 32768 + (b[1] % 32768), b[2]>>
        m == mt[((kk + MT_M) % MT_N) + 1]
        v == Xor(Xor(m, Shr(y, 1)),
                 IF y[2] % 2 = 1 THEN MATRIX_A ELSE <<0, 0>>)
    IN  [mt EXCEPT ![kk + 1] = v]

\* genrand_uint32's tempering.
Temper(y0) ==
    LET y1 == Xor(y0, Shr(y0, 11))
        y2 == Xor(y1, And(Shl(y1, 7), TemperB))
        y3 == Xor(y2, And(Shl(y2, 15), TemperC))
    IN  Xor(y3, Shr(y3, 18))

TemperStep(mt, i) == [mt EXCEPT ![i] = Temper(mt[i])]

\* The bodies of the generator's for-loops, by loop.
LoopBody(loop, st, t) ==
    CASE loop = "init_genrand"    -> InitGenrandStep(st, t)
      [] loop = "init_by_array_1" -> KeyStep1(st, t)
      [] loop = "init_by_array_2" -> KeyStep2(st, t)
      [] loop = "regenerate"      -> TwistStep(st, t)
      [] loop = "temper"          -> TemperStep(st, t)

\* The body of a loop applied for t = lo, lo + 1, ..., hi to the state st.
\* The range is split in halves and the state after the first half is bound
\* as a value before the second half runs on it.
RECURSIVE IterateRange(_, _, _, _)
IterateRange(loop, st, lo, hi) ==
    IF lo > hi THEN st
    ELSE IF lo = hi THEN LoopBody(loop, st, lo)
    ELSE LET mid == (lo + hi) \div 2
         IN  CHOOSE r \in {IterateRange(loop, u, mid + 1, hi) :
                              u \in {IterateRange(loop, st, lo, mid)}} : TRUE

\* The same, with the state it starts from computed first.
Iterate(loop, st, lo, hi) ==
    CHOOSE r \in {IterateRange(loop, u, lo, hi) : u \in {st}} : TRUE

\* init_genrand(s): mt[0] = s, then mt[1], ..., mt[N-1] in turn.
init_genrand(s) == Iterate("init_genrand", <<s>>, 1, MT_N - 1)

\* init_by_array starts from init_genrand(19650218), the same words for
\* every key.
SeededWords == init_genrand(InitSeed)

\* random.seed(a) for an integer 0 <= a < 2^16: init_by_array with the
\* one-word key [a]; N steps of the first loop, N - 1 of the second, then
\* mt[0] = 0x80000000.
init_by_array(a) ==
    LET st0 == [mt |-> SeededWords, i |-> 1, key |-> <<0, a>>]
        st1 == Iterate("init_by_array_1", st0, 1, MT_N)
        st2 == Iterate("init_by_array_2", st1, 1, MT_N - 1)
    IN  [st2.mt EXCEPT ![1] = UpperBit]

\* The regeneration of the N words.
Twist(mt) == Iterate("regenerate", mt, 0, MT_N - 1)

\* The N words after the k-th regeneration since random.seed(a).
RECURSIVE Regenerated(_, _)
Regenerated(a, k) ==
    IF k <= 1 THEN Twist(init_by_array(a)) ELSE Twist(Regenerated(a, k - 1))

\* The outputs of genrand_uint32 numbered (k - 1) * N + 1 .. k * N.
Outputs(a, k) == Iterate("temper", Regenerated(a, k), 1, MT_N)

\* The first N outputs for each of the seeds 0..a.
RECURSIVE OutputsUpTo(_)
OutputsUpTo(a) ==
    IF a < 0 THEN <<>> ELSE Append(OutputsUpTo(a - 1), Outputs(a, 1))

\* The same for the seeds 0..MaxEntropy, computed once.
FirstOutputs == OutputsUpTo(MaxEntropy)

\* Further seeds, whose first shoes deal hands that those of the seeds
\* 0..MaxEntropy do not: two naturals in the first hand (362), dealer's
\* hands of several aces (35, 80, 86, 154), a dealer's ace and six (77).
DealSeeds == <<35, 77, 80, 86, 154, 362>>

\* The first N outputs for each of the seeds seeds[1..k].
RECURSIVE OutputsFor(_, _)
OutputsFor(seeds, k) ==
    IF k <= 0 THEN <<>>
    ELSE Append(OutputsFor(seeds, k - 1), Outputs(seeds[k], 1))

\* The same for the seeds DealSeeds, computed once.
DealOutputs == OutputsFor(DealSeeds, Len(DealSeeds))

IsDealSeed(a) == \E k \in 1..Len(DealSeeds) : DealSeeds[k] = a

DealIndex(a) == CHOOSE k \in 1..Len(DealSeeds) : DealSeeds[k] = a

\* The n-th output of genrand_uint32 since random.seed(a), n >= 1.
genrand_uint32(a, n) ==
    IF n <= MT_N /\ a <= MaxEntropy THEN FirstOutputs[a + 1][n]
    ELSE IF n <= MT_N /\ IsDealSeed(a) THEN DealOutputs[DealIndex(a)][n]
    ELSE Outputs(a, ((n - 1) \div MT_N) + 1)[((n - 1) % MT_N) + 1]

(***************************************************************************)
(* The generator's state is held as the seed it was last given and the     *)
(* number of words drawn since: [seed |-> a, drawn |-> n] is the state     *)
(* random.seed(a) followed by n calls of genrand_uint32 leaves.            *)
(***************************************************************************)
random_seed(a) == [seed |-> a, drawn |-> 0]

\* getrandbits(k), 0 < k <= 16: genrand_uint32() >> (32 - k), the top k
\* bits of the word's high half.
getrandbits(st, k) ==
    [value |-> genrand_uint32(st.seed, st.drawn + 1)[1] \div Pow2(16 - k),
     rng   |-> [seed |-> st.seed, drawn |-> st.drawn + 1]]

\* n.bit_length()
RECURSIVE bit_length(_)
bit_length(n) == IF n = 0 THEN 0 ELSE 1 + bit_length(n \div 2)

\* The loop of Random._randbelow_with_getrandbits(n):
\* r = getrandbits(k); while r >= n: r = getrandbits(k).
RECURSIVE RandbelowLoop(_, _, _)
RandbelowLoop(st, n, k) ==
    CHOOSE r \in {IF g.value >= n THEN RandbelowLoop(g.rng, n, k) ELSE g :
                     g \in {getrandbits(st, k)}} : TRUE

\* Random._randbelow_with_getrandbits(n): k = n.bit_length(), then the loop.
randbelow(st, n) ==
    CHOOSE r \in {RandbelowLoop(st, n, k) : k \in {bit_length(n)}} : TRUE

(***************************************************************************)
(* random.shuffle: for i from the last index down to 1, swap x[i] with     *)
(* x[j], j = randbelow(i + 1).                                             *)
(***************************************************************************)
\* One iteration of the shuffle's loop, for the (1-based) index i:
\* j = randbelow(i + 1); x[i], x[j] = x[j], x[i].  The draw r is bound as a
\* value before the swap is made with it.
ShuffleStep(st, i) ==
    LET x == st.cards
        Swap(r) == [cards |-> [x EXCEPT ![i] = x[r.value + 1],
                                        ![r.value + 1] = x[i]],
                    rng   |-> r.rng]
    IN  CHOOSE q \in {Swap(r) : r \in {randbelow(st.rng, i)}} : TRUE

\* The iterations for i = hi, hi - 1, ..., lo, in that order.  The range is
\* split in halves, which keeps the evaluation shallow for a long list; the
\* state after the upper half is bound as a value (u) before the lower half
\* runs on it, so that it is computed once.
RECURSIVE ShuffleRange(_, _, _)
ShuffleRange(st, hi, lo) ==
    IF st.cards = <<>> \/ hi < lo THEN st
    ELSE IF hi = lo THEN ShuffleStep(st, hi)
    ELSE LET mid == (hi + lo) \div 2
         IN  CHOOSE r \in {ShuffleRange(u, mid, lo) :
                              u \in {ShuffleRange(st, hi, mid + 1)}} : TRUE

random_shuffle(x, s) == ShuffleRange([cards |-> x, rng |-> s], Len(x), 2)

(***************************************************************************)
(* Shoe (blackjack_simulator.py lines 14-28).                              *)
(***************************************************************************)
Deck == [k \in 1..(Len(RANKS) * Len(SUITS)) |->
            Card(RANKS[((k - 1) \div Len(SUITS)) + 1],
                 SUITS[((k - 1) % Len(SUITS)) + 1])]

RECURSIVE Times(_, _)
Times(x, n) == IF n <= 0 THEN <<>> ELSE x \o Times(x, n - 1)

\* Shoe.shuffle: the rebuilt pool, shuffled with the process-wide generator.
shuffle(num_decks, s) == random_shuffle(Times(Deck, num_decks), s)

\* self.cards.pop(): the last card of the pool is removed and returned.
pop(sh) ==
    [card  |-> sh.cards[Len(sh.cards)],
     cards |-> SubSeq(sh.cards, 1, Len(sh.cards) - 1),
     rng   |-> sh.rng]

\* Mutant: draw without the reshuffle.
draw_NoReshuffle(cs, s, num_decks) ==
    [card  |-> cs[Len(cs)],
     cards |-> SubSeq(cs, 1, Len(cs) - 1),
     rng   |-> s]

\* Shoe.draw: reshuffle when fewer than 15 cards remain, then pop the last.
draw(cs, s, num_decks) ==
    CHOOSE d \in {pop(sh) : sh \in {IF Len(cs) < 15 THEN shuffle(num_decks, s)
                                    ELSE [cards |-> cs, rng |-> s]}} : TRUE

(***************************************************************************)
(* Hand valuation (blackjack_simulator.py lines 31-53).                    *)
(***************************************************************************)
RECURSIVE SumValues(_)
SumValues(hand) ==
    IF hand = <<>> THEN 0 ELSE VALUES(Head(hand).rank) + SumValues(Tail(hand))

CountAces(hand) == Cardinality({k \in 1..Len(hand) : hand[k].rank = "A"})

\* Mutant: at most one ace is reduced.
Soften_Once(value, aces) ==
    IF value > 21 /\ aces # 0 THEN value - 10 ELSE value

RECURSIVE Soften(_, _)
Soften(value, aces) ==
    IF value > 21 /\ aces # 0 THEN Soften(value - 10, aces - 1) ELSE value

hand_value(hand) == Soften(SumValues(hand), CountAces(hand))

RECURSIVE hand_str(_)
hand_str(hand) ==
    IF hand = <<>> THEN ""
    ELSE IF Len(hand) = 1 THEN hand[1].rank \o hand[1].suit
    ELSE hand[1].rank \o hand[1].suit \o " " \o hand_str(Tail(hand))

is_blackjack(hand) == Len(hand) = 2 /\ hand_value(hand) = 21

is_soft_17(hand) == CountAces(hand) > 0 /\ SumValues(hand) = 17

(***************************************************************************)
(* Sidebar parameters (app.py lines 12-23).  number_input without a        *)
(* min_value accepts any number; the multiplier is held to 1.0..10.0 and   *)
(* the deck and player counts to their sliders' ranges by the widgets.     *)
(***************************************************************************)
Config(B, b, m, d, p, h, s17, n, seed) ==
    [bankroll_start : B, base_bet : b, bet_multiplier : m, num_decks : d,
     num_players : p, num_hands : h, dealer_hits_soft_17 : s17,
     num_iterations : n, random_seed : seed]

\* What the spec's run_trial accepts (section 6).
ValidConfig(c) ==
    /\ c.bankroll_start > 0
    /\ c.base_bet > 0
    /\ c.bet_multiplier >= 1
    /\ c.num_hands > 0
    /\ c.num_decks \in 1..8

\* Valid parameters, explored by Spec.
Configs ==
    Config({15, 25, 50, 75}, {25}, {1, 2, 3}, {1, 2}, {1, 6},
           {MaxHands - 1, MaxHands}, BOOLEAN, {1, 2}, {42})

\* A small set of valid parameters for sessions of several runs.
SessionConfigs ==
    Config({50}, {25}, {2}, {1}, {1}, {MaxHands - 1, MaxHands}, {FALSE},
           {1, 2}, {42, 43})

\* Parameters the widgets accept, valid or not.
WidgetConfigs ==
    Config({-25, 0, 50}, {-25, 0, 25}, {2}, {1}, {1}, {-1, 0, 2}, {FALSE},
           {1, 2}, {42})

\* An amount of whole dollars, in half-dollars.
Halves(dollars) == 2 * dollars

RECURSIVE Pow(_, _)
Pow(b, e) == IF e <= 0 THEN 1 ELSE b * Pow(b, e - 1)

NoOutcome == [result |-> "", payout |-> 0]

Blank == <<>>           \* the "" a BUST row holds in its value columns
Num(v) == <<v>>         \* a number in those columns

(***************************************************************************)
(* State after the script's imports, before any button press.  Both        *)
(* generators are seeded from OS entropy at import; of the states that     *)
(* can leave `random` in, those of random.seed(0), ..., random.seed(       *)
(* MaxEntropy) are taken.                                                  *)
(***************************************************************************)
InitFrom(seeds) ==
    /\ pyrand \in {random_seed(a) : a \in seeds}
    /\ nprand \in 0..1
    /\ pc = "idle"
    /\ clicks = 0
    /\ cfg = CHOOSE c \in Configs : TRUE
    /\ iter = 0
    /\ cards = <<>>
    /\ bankroll = 0
    /\ loss_streak = 0
    /\ records = <<>>
    /\ hand_num = 0
    /\ current_bet = 0
    /\ dealer = <<>>
    /\ player = <<>>
    /\ other_players = <<>>
    /\ outcome = NoOutcome
    /\ trials = <<>>

Init == InitFrom(0..MaxEntropy)

(***************************************************************************)
(* app.py line 101: the button is pressed with parameters c.               *)
(***************************************************************************)
RunSimulation(C, maxClicks) ==
    /\ pc = "idle"
    /\ clicks < maxClicks
    /\ \E c \in C : cfg' = c
    /\ clicks' = clicks + 1
    /\ iter' = 0
    /\ pc' = "trial"
    /\ UNCHANGED <<pyrand, nprand, cards, bankroll, loss_streak, records,
                   hand_num, current_bet, dealer, player, other_players,
                   outcome, trials>>

\* The seed of the trial under way: random_seed (line 105), random_seed + i
\* (line 141).
TrialSeed == cfg.random_seed + iter

\* np.random.seed(seed): the new state of numpy's generator.  Python's
\* `random` generator is another object, which this call does not touch.
np_random_seed(seed) == seed

(***************************************************************************)
(* app.py lines 105-107 / 141-144 and 46-48: seed, build the Shoe          *)
(* (Shoe.__init__ shuffles), enter simulate_martingale.                    *)
(***************************************************************************)
StartTrial ==
    /\ pc = "trial"
    /\ nprand' = np_random_seed(TrialSeed)
    /\ \E sh \in {shuffle(cfg.num_decks, pyrand)} :
           cards' = sh.cards /\ pyrand' = sh.rng
    /\ bankroll' = Halves(cfg.bankroll_start)
    /\ loss_streak' = 0
    /\ records' = <<>>
    /\ hand_num' = 1
    /\ pc' = "hand"
    /\ UNCHANGED <<clicks, cfg, iter, current_bet, dealer, player,
                   other_players, outcome, trials>>

\* app.py line 51, in half-dollars.
Bet == Halves(cfg.base_bet) * Pow(cfg.bet_multiplier, loss_streak)

\* Mutant: the rows are numbered from 0.
Row_FromZero(result, p, d, pv, dv, bet, br, streak) ==
    [hand |-> hand_num - 1, result |-> result, player_hand |-> p,
     dealer_hand |-> d, player_value |-> pv, dealer_value |-> dv,
     bet |-> bet, bankroll |-> br, profit |-> br - Halves(cfg.bankroll_start),
     streak_losses |-> streak]

\* One ledger row (app.py lines 55-66 and 82-93).
Row(result, p, d, pv, dv, bet, br, streak) ==
    [hand |-> hand_num, result |-> result, player_hand |-> p,
     dealer_hand |-> d, player_value |-> pv, dealer_value |-> dv,
     bet |-> bet, bankroll |-> br, profit |-> br - Halves(cfg.bankroll_start),
     streak_losses |-> streak]

\* Mutant: the bet is tested against the starting bankroll.
ExceedsBankroll_Start(bet, br) == bet > Halves(cfg.bankroll_start)

\* Mutant: the bust test taken with >= for >.
ExceedsBankroll_Geq(bet, br) == bet >= br

\* app.py line 54: the required bet exceeds the bankroll.
ExceedsBankroll(bet, br) == bet > br

\* Mutant: the ruin test taken with < for <=.
Ruined_Strict(br) == br < 0

\* app.py line 95: ruin.
Ruined(br) == br <= 0

\* app.py line 50: range(1, num_hands + 1) is exhausted.
LoopExit ==
    /\ pc = "hand"
    /\ hand_num > cfg.num_hands
    /\ pc' = "return"
    /\ UNCHANGED <<pyrand, nprand, clicks, cfg, iter, cards, bankroll,
                   loss_streak, records, hand_num, current_bet, dealer,
                   player, other_players, outcome, trials>>

\* Mutant: the BUST row is appended without the break.
Bust_NoBreak ==
    /\ pc = "hand"
    /\ hand_num <= cfg.num_hands
    /\ ExceedsBankroll(Bet, bankroll)
    /\ current_bet' = Bet
    /\ records' = Append(records,
            Row("BUST", "", "", Blank, Blank, Bet, bankroll, loss_streak))
    /\ hand_num' = hand_num + 1
    /\ pc' = "hand"
    /\ UNCHANGED <<pyrand, nprand, clicks, cfg, iter, cards, bankroll,
                   loss_streak, dealer, player, other_players, outcome,
                   trials>>

\* app.py lines 51-67: the required bet exceeds the bankroll.
Bust ==
    /\ pc = "hand"
    /\ hand_num <= cfg.num_hands
    /\ ExceedsBankroll(Bet, bankroll)
    /\ current_bet' = Bet
    /\ records' = Append(records,
            Row("BUST", "", "", Blank, Blank, Bet, bankroll, loss_streak))
    /\ pc' = "return"
    /\ UNCHANGED <<pyrand, nprand, clicks, cfg, iter, cards, bankroll,
                   loss_streak, hand_num, dealer, player, other_players,
                   outcome, trials>>

\* app.py lines 51-54 and 69: the bet can be placed; the resolver is called.
PlaceBet ==
    /\ pc = "hand"
    /\ hand_num <= cfg.num_hands
    /\ ~ExceedsBankroll(Bet, bankroll)
    /\ current_bet' = Bet
    /\ dealer' = <<>>
    /\ player' = <<>>
    /\ other_players' = <<>>
    /\ outcome' = NoOutcome
    /\ pc' = "deal"
    /\ UNCHANGED <<pyrand, nprand, clicks, cfg, iter, cards, bankroll,
                   loss_streak, records, hand_num, trials>>

\* Cards dealt so far in the initial deal.
Dealt == Len(dealer) + Len(player) + Len(other_players)

\* Mutant: only the dealer and the tracked player are dealt cards.
DealCard_SkipOthers ==
    /\ pc = "deal"
    /\ \E d \in {draw(cards, pyrand, cfg.num_decks)} :
           /\ cards' = d.cards
           /\ pyrand' = d.rng
           /\ IF Len(dealer) < 2
              THEN dealer' = Append(dealer, d.card)
                   /\ UNCHANGED <<player, other_players>>
              ELSE player' = Append(player, d.card)
                   /\ UNCHANGED <<dealer, other_players>>
    /\ pc' = IF Dealt + 1 >= 4 THEN "naturals" ELSE "deal"
    /\ UNCHANGED <<nprand, clicks, cfg, iter, bankroll, loss_streak, records,
                   hand_num, current_bet, outcome, trials>>

\* blackjack_simulator.py lines 61-63: one shoe.draw() of the initial deal,
\* in the order dealer, dealer, player, player, then two per other seat.
\* other_players holds the other seats' cards in the order drawn.
DealCard ==
    /\ pc = "deal"
    /\ \E d \in {draw(cards, pyrand, cfg.num_decks)} :
           /\ cards' = d.cards
           /\ pyrand' = d.rng
           /\ IF Len(dealer) < 2
              THEN dealer' = Append(dealer, d.card)
                   /\ UNCHANGED <<player, other_players>>
              ELSE IF Len(player) < 2
              THEN player' = Append(player, d.card)
                   /\ UNCHANGED <<dealer, other_players>>
              ELSE other_players' = Append(other_players, d.card)
                   /\ UNCHANGED <<dealer, player>>
    /\ pc' = IF Dealt + 1 >= 2 * (cfg.num_players - 1) + 4
             THEN "naturals" ELSE "deal"
    /\ UNCHANGED <<nprand, clicks, cfg, iter, bankroll, loss_streak, records,
                   hand_num, current_bet, outcome, trials>>

Return(result, payout) == [result |-> result, payout |-> payout]

\* Mutant: a natural is paid even money.
Naturals_EvenMoney ==
    /\ pc = "naturals"
    /\ LET player_bj == is_blackjack(player)
           dealer_bj == is_blackjack(dealer)
       IN  IF player_bj /\ ~dealer_bj
           THEN outcome' = Return("win", current_bet)
                /\ pc' = "settle"
           ELSE IF dealer_bj /\ ~player_bj
           THEN outcome' = Return("lose", 0) /\ pc' = "settle"
           ELSE IF player_bj /\ dealer_bj
           THEN outcome' = Return("push", 0) /\ pc' = "settle"
           ELSE outcome' = outcome /\ pc' = "player"
    /\ UNCHANGED <<pyrand, nprand, clicks, cfg, iter, cards, bankroll,
                   loss_streak, records, hand_num, current_bet, dealer,
                   player, other_players, trials>>

\* blackjack_simulator.py lines 65-73: the naturals.  The player's natural
\* returns 1.5 * bet: in half-dollars, where the bet is an even number,
\* three halves of it.
Naturals ==
    /\ pc = "naturals"
    /\ LET player_bj == is_blackjack(player)
           dealer_bj == is_blackjack(dealer)
       IN  IF player_bj /\ ~dealer_bj
           THEN outcome' = Return("win", (3 * current_bet) \div 2)
                /\ pc' = "settle"
           ELSE IF dealer_bj /\ ~player_bj
           THEN outcome' = Return("lose", 0) /\ pc' = "settle"
           ELSE IF player_bj /\ dealer_bj
           THEN outcome' = Return("push", 0) /\ pc' = "settle"
           ELSE outcome' = outcome /\ pc' = "player"
    /\ UNCHANGED <<pyrand, nprand, clicks, cfg, iter, cards, bankroll,
                   loss_streak, records, hand_num, current_bet, dealer,
                   player, other_players, trials>>

\* blackjack_simulator.py lines 76-77: the player hits below 17.
PlayerHit ==
    /\ pc = "player"
    /\ hand_value(player) < 17
    /\ \E d \in {draw(cards, pyrand, cfg.num_decks)} :
           /\ cards' = d.cards
           /\ pyrand' = d.rng
           /\ player' = Append(player, d.card)
    /\ UNCHANGED <<nprand, pc, clicks, cfg, iter, bankroll, loss_streak,
                   records, hand_num, current_bet, dealer, other_players,
                   outcome, trials>>

\* Mutant: the player's bust is not tested; the dealer plays on.
PlayerStand_NoBustCheck ==
    /\ pc = "player"
    /\ ~(hand_value(player) < 17)
    /\ outcome' = outcome
    /\ pc' = "dealer"
    /\ UNCHANGED <<pyrand, nprand, clicks, cfg, iter, cards, bankroll,
                   loss_streak, records, hand_num, current_bet, dealer,
                   player, other_players, trials>>

\* blackjack_simulator.py lines 76-79: the player's loop ends; a bust loses.
PlayerStand ==
    /\ pc = "player"
    /\ ~(hand_value(player) < 17)
    /\ IF hand_value(player) > 21
       THEN outcome' = Return("lose", 0) /\ pc' = "settle"
       ELSE outcome' = outcome /\ pc' = "dealer"
    /\ UNCHANGED <<pyrand, nprand, clicks, cfg, iter, cards, bankroll,
                   loss_streak, records, hand_num, current_bet, dealer,
                   player, other_players, trials>>

\* Mutant: a soft 17 is hit whatever the rule says.
DealerDraws_IgnoreRule ==
    \/ hand_value(dealer) < 17
    \/ is_soft_17(dealer)

\* blackjack_simulator.py line 84: the dealer's condition to draw.
DealerDraws ==
    \/ hand_value(dealer) < 17
    \/ (cfg.dealer_hits_soft_17 /\ is_soft_17(dealer))

\* blackjack_simulator.py lines 82-85.
DealerHit ==
    /\ pc = "dealer"
    /\ DealerDraws
    /\ \E d \in {draw(cards, pyrand, cfg.num_decks)} :
           /\ cards' = d.cards
           /\ pyrand' = d.rng
           /\ dealer' = Append(dealer, d.card)
    /\ UNCHANGED <<nprand, pc, clicks, cfg, iter, bankroll, loss_streak,
                   records, hand_num, current_bet, player, other_players,
                   outcome, trials>>

\* Mutant: the dealer's bust is not tested before the values are compared.
Compare_NoDealerBust(p_val, d_val, bet) ==
    IF p_val > d_val THEN Return("win", bet)
    ELSE IF p_val < d_val THEN Return("lose", 0)
    ELSE Return("push", 0)

\* blackjack_simulator.py lines 89-96: the comparison of the final values.
Compare(p_val, d_val, bet) ==
    IF d_val > 21 THEN Return("win", bet)
    ELSE IF p_val > d_val THEN Return("win", bet)
    ELSE IF p_val < d_val THEN Return("lose", 0)
    ELSE Return("push", 0)

\* blackjack_simulator.py lines 86-96: the dealer stands, the hand is decided.
DealerStand ==
    /\ pc = "dealer"
    /\ ~DealerDraws
    /\ outcome' = Compare(hand_value(player), hand_value(dealer), current_bet)
    /\ pc' = "settle"
    /\ UNCHANGED <<pyrand, nprand, clicks, cfg, iter, cards, bankroll,
                   loss_streak, records, hand_num, current_bet, dealer,
                   player, other_players, trials>>

\* Mutant: a win does not reset the streak.
Settled_KeepStreak(br, streak, bet, out) ==
    IF out.result = "win"
    THEN [bankroll |-> br + out.payout, loss_streak |-> streak]
    ELSE IF out.result = "push"
    THEN [bankroll |-> br, loss_streak |-> streak]
    ELSE [bankroll |-> br - bet, loss_streak |-> streak + 1]

\* Mutant: a win adds the bet, whatever the payout.
Settled_PaysBet(br, streak, bet, out) ==
    IF out.result = "win"
    THEN [bankroll |-> br + bet, loss_streak |-> 0]
    ELSE IF out.result = "push"
    THEN [bankroll |-> br, loss_streak |-> streak]
    ELSE [bankroll |-> br - bet, loss_streak |-> streak + 1]

\* app.py lines 73-80: the bankroll and the streak after a hand.
Settled(br, streak, bet, out) ==
    IF out.result = "win"
    THEN [bankroll |-> br + out.payout, loss_streak |-> 0]
    ELSE IF out.result = "push"
    THEN [bankroll |-> br, loss_streak |-> streak]
    ELSE [bankroll |-> br - bet, loss_streak |-> streak + 1]

\* app.py lines 69-96: settle the hand, append its row, stop on ruin.
Settle ==
    /\ pc = "settle"
    /\ LET st == Settled(bankroll, loss_streak, current_bet, outcome)
       IN  /\ bankroll' = st.bankroll
           /\ loss_streak' = st.loss_streak
           /\ records' = Append(records,
                  Row(outcome.result, hand_str(player), hand_str(dealer),
                      Num(hand_value(player)), Num(hand_value(dealer)),
                      current_bet, st.bankroll, st.loss_streak))
           /\ pc' = IF Ruined(st.bankroll) THEN "return" ELSE "hand"
    /\ hand_num' = hand_num + 1
    /\ UNCHANGED <<pyrand, nprand, clicks, cfg, iter, cards, current_bet,
                   dealer, player, other_players, outcome, trials>>

\* The trial as the caller sees it: the seed it set, the parameters, the
\* DataFrame returned.
Trial == [seed |-> TrialSeed, cfg |-> cfg, df |-> records]

\* app.py lines 98, 111-113 and 148-167: simulate_martingale returns; the
\* caller reads the DataFrame (df["result"] raises KeyError on an empty one),
\* then takes the next iteration or finishes.
EndTrial ==
    /\ pc = "return"
    /\ trials' = Append(trials, Trial)
    /\ IF records = <<>>
       THEN pc' = "KeyError" /\ iter' = iter
       ELSE IF iter + 1 < cfg.num_iterations
       THEN pc' = "trial" /\ iter' = iter + 1
       ELSE pc' = "idle" /\ iter' = iter
    /\ UNCHANGED <<pyrand, nprand, clicks, cfg, cards, bankroll, loss_streak,
                   records, hand_num, current_bet, dealer, player,
                   other_players, outcome>>

\* The steps of a trial once its Shoe is built.
Play ==
    \/ LoopExit
    \/ Bust
    \/ PlaceBet
    \/ DealCard
    \/ Naturals
    \/ PlayerHit
    \/ PlayerStand
    \/ DealerHit
    \/ DealerStand
    \/ Settle
    \/ EndTrial

Step == StartTrial \/ Play

\* One run with valid parameters, from any initial generator state.
Next == RunSimulation(Configs, 1) \/ Step

Spec == Init /\ [][Next]_vars

\* A session of several runs in one process.
NextSession == RunSimulation(SessionConfigs, MaxClicks) \/ Step

SpecSession == Init /\ [][NextSession]_vars

\* One run with whatever the widgets accept.
NextWidgets == RunSimulation(WidgetConfigs, 1) \/ Step

SpecWidgets == Init /\ [][NextWidgets]_vars

\* Parameters of the runs followed to their end.
LiveConfigs ==
    Config({50}, {25}, {2}, {1}, {2, 6}, {MaxHands - 1, MaxHands},
           BOOLEAN, {1, 2}, {42})

NextLive == RunSimulation(LiveConfigs, 1) \/ Step

\* One run with the script executing: the interpreter takes the program's
\* next step whenever there is one.  The button press is the user's and is
\* not forced.
SpecLive == Init /\ [][NextLive]_vars /\ WF_vars(Step)

(***************************************************************************)
(* The hands one deal can make.  The states of `random` taken here are     *)
(* those of Init and of random.seed(a) for a in DealSeeds; each trial is   *)
(* the program's own: Shoe.__init__ shuffles with that generator.          *)
(***************************************************************************)
\* One deck; one to six seats; a bankroll that lasts MaxHands hands,
\* and one below the base bet for the BUST row.
DealConfigs ==
    Config({250}, {25}, {2}, {1}, 1..6, {MaxHands}, BOOLEAN, {1}, {42})
        \cup Config({15}, {25}, {2}, {1}, {1}, {1}, {FALSE}, {1}, {42})

InitDeal ==
    /\ InitFrom((0..MaxEntropy) \cup {DealSeeds[k] : k \in 1..Len(DealSeeds)})
    /\ nprand = 0

NextDeal == RunSimulation(DealConfigs, 1) \/ Step

\* One run of one trial from each of those states of `random`.
SpecDeal == InitDeal /\ [][NextDeal]_vars

(***************************************************************************)
(* Properties of the ledger under construction.                            *)
(***************************************************************************)
Rows == 1..Len(records)

\* The loss streak and the bankroll recorded before row k.
PrevStreak(k) == IF k = 1 THEN 0 ELSE records[k - 1].streak_losses
PrevBankroll(k) ==
    IF k = 1 THEN Halves(cfg.bankroll_start) ELSE records[k - 1].bankroll

\* A trial is under way or has just returned: records is its ledger.
InTrial == pc \notin {"idle", "trial", "KeyError"}

\* C2: every row's bet is base_bet * multiplier^streak for the streak of the
\* row before it (0 for hand 1): after a lose the multiplied bet of the
\* post-loss streak, after a win the base bet, after a push the same bet.
C2_MartingaleBets ==
    \A k \in Rows :
        /\ records[k].bet
             = Halves(cfg.base_bet) * Pow(cfg.bet_multiplier, PrevStreak(k))
        /\ k > 1 =>
             LET prev == records[k - 1]
             IN  /\ prev.result = "win" =>
                      records[k].bet = Halves(cfg.base_bet)
                 /\ prev.result = "push" => records[k].bet = prev.bet
                 /\ prev.result = "lose" =>
                      /\ prev.streak_losses = PrevStreak(k - 1) + 1
                      /\ records[k].bet = prev.bet * cfg.bet_multiplier

\* A ledger with a raised bet after a loss and the base bet after the win
\* that followed.
C2_Witness ==
    /\ Len(records) = 3
    /\ records[1].result = "lose"
    /\ records[2].result = "win"
    /\ records[2].bet > records[1].bet
    /\ records[3].bet = Halves(cfg.base_bet)

\* C3: a row is BUST exactly when its bet exceeds the bankroll held before
\* it, no earlier row is BUST, every played row's bet was at most that
\* bankroll, and a trial that stops short of num_hands with money left
\* stopped on a BUST row.
C3_BustRule ==
    /\ \A k \in Rows :
          /\ (records[k].result = "BUST") <=> (records[k].bet > PrevBankroll(k))
          /\ records[k].result = "BUST" =>
                \A j \in 1..(k - 1) : records[j].bet <= PrevBankroll(j)
    /\ (pc = "return" /\ Len(records) < cfg.num_hands) =>
          /\ records # <<>>
          /\ \/ records[Len(records)].result = "BUST"
             \/ records[Len(records)].bankroll <= 0

\* A BUST row on hand 3, after two played hands.
C3_Witness ==
    /\ pc = "return"
    /\ Len(records) = 3
    /\ records[3].result = "BUST"
    /\ records[3].bet > records[2].bankroll
    /\ records[2].bet <= records[1].bankroll

LastRow == records[Len(records)]

\* A BUST row is the last row, holds no hands, and repeats the bankroll and
\* the streak recorded before it.
C4_BustRow ==
    \A k \in Rows :
        records[k].result = "BUST" =>
            /\ k = Len(records)
            /\ records[k].player_hand = "" /\ records[k].dealer_hand = ""
            /\ records[k].player_value = Blank
            /\ records[k].dealer_value = Blank
            /\ records[k].bankroll = PrevBankroll(k)
            /\ records[k].streak_losses = PrevStreak(k)

\* Appending a BUST row draws no card and plays no hand, and the ledger is
\* not extended after it.
C4_BustStep ==
    /\ (Len(records') = Len(records) + 1
          /\ records'[Len(records')].result = "BUST") =>
            /\ cards' = cards /\ pyrand' = pyrand
            /\ dealer' = dealer /\ player' = player
            /\ other_players' = other_players
            /\ pc' = "return"
    /\ (records # <<>> /\ LastRow.result = "BUST" /\ records' # records) =>
            pc = "trial"

\* C4: BUST is terminal: at most one BUST row, always the last; adding it
\* calls no resolver and leaves the shoe as it was; the row repeats the
\* bankroll and the streak before it, with empty hands.
C4_BustAbsorbing == []C4_BustRow /\ [][C4_BustStep]_vars

\* A trial that returned on a BUST row after a played hand.
C4_Witness ==
    /\ pc = "return"
    /\ Len(records) >= 2
    /\ LastRow.result = "BUST"
    /\ Len(cards) < 52 * cfg.num_decks

\* C5: only the last row can record a bankroll <= 0; that row is a lost
\* hand, not BUST, and the driver plays no hand after it.
C5_RuinStops ==
    /\ \A k \in Rows :
          records[k].bankroll <= 0 =>
              k = Len(records) /\ records[k].result = "lose"
    /\ (records # <<>> /\ LastRow.bankroll <= 0) =>
          pc \in {"return", "trial", "idle"}

\* A trial that stopped on ruin with hands still to play.
C5_Witness ==
    /\ pc = "return"
    /\ records # <<>>
    /\ LastRow.bankroll = 0
    /\ LastRow.result = "lose"
    /\ Len(records) < cfg.num_hands

\* A two-card hand renders in at most 7 characters ("10S 10H"), a longer
\* one in at least 8: a won row shows a player natural when the player's
\* value is 21 on two cards.
NaturalRow(row) ==
    row.result = "win" /\ row.player_value = Num(21)
        /\ Len(row.player_hand) <= 7

\* The net result of a row: the payout of a win, minus the bet of a loss.
NetOf(row) ==
    IF row.result = "win"
    THEN (IF NaturalRow(row) THEN (3 * row.bet) \div 2 ELSE row.bet)
    ELSE IF row.result = "lose" THEN 0 - row.bet
    ELSE 0

RECURSIVE SumNet(_)
SumNet(rows) == IF rows = <<>> THEN 0 ELSE NetOf(Head(rows)) + SumNet(Tail(rows))

\* Every row's profit is its bankroll less the starting bankroll, and the
\* last bankroll is the starting bankroll plus the rows' net results.
C6_Ledger ==
    /\ \A k \in Rows :
          records[k].profit
              = records[k].bankroll - Halves(cfg.bankroll_start)
    /\ records # <<>> =>
          LastRow.bankroll = Halves(cfg.bankroll_start) + SumNet(records)

\* The step that settles a hand.
C6_SettleStep ==
    (pc = "settle" /\ pc' # "settle") =>
        /\ outcome.result \in {"win", "push", "lose"}
        /\ outcome.result = "win" =>
              bankroll' = bankroll + outcome.payout /\ loss_streak' = 0
        /\ outcome.result = "push" =>
              bankroll' = bankroll /\ loss_streak' = loss_streak
        /\ outcome.result = "lose" =>
              bankroll' = bankroll - current_bet
                  /\ loss_streak' = loss_streak + 1
        /\ records' = Append(records, records'[Len(records')])
        /\ records'[Len(records')].bankroll = bankroll'
        /\ records'[Len(records')].streak_losses = loss_streak'

\* C6: a win adds the payout and resets the streak, a push changes nothing,
\* a lose takes the bet and adds one to the streak; so each profit is
\* bankroll - start, and the last bankroll is start + the sum of the nets.
C6_Settlement == []C6_Ledger /\ [][C6_SettleStep]_vars

\* A ledger with a natural paid 3:2, a lost hand and profit to show.
C6_Witness ==
    /\ Len(records) = 3
    /\ \E k \in Rows : NaturalRow(records[k])
    /\ \E k \in Rows : records[k].result = "lose"
    /\ LastRow.profit # 0

\* The cards on the table.
Table == dealer \o player \o other_players

\* The shoe of a trial holds between 1 and 52 * num_decks cards.
C7_ShoeSize == InTrial => Len(cards) \in 1..(52 * cfg.num_decks)

\* A step that draws: the table gains the card the shoe gives up; a shoe of
\* fewer than 15 cards is first rebuilt to 52 * num_decks.
C7_DrawStep ==
    Len(Table') = Len(Table) + 1 =>
        LET grown == IF Len(dealer') > Len(dealer) THEN dealer'
                     ELSE IF Len(player') > Len(player) THEN player'
                     ELSE other_players'
            card  == grown[Len(grown)]
        IN  /\ \E k \in 1..Len(Deck) : card = Deck[k]
            /\ Len(cards) < 15 => Len(cards') = 52 * cfg.num_decks - 1
            /\ Len(cards) >= 15 =>
                  /\ card = cards[Len(cards)]
                  /\ cards' = SubSeq(cards, 1, Len(cards) - 1)

\* C7: for num_decks >= 1 every draw returns a card; a draw with fewer than
\* 15 cards left first rebuilds the pool to 52 * num_decks cards and then
\* serves the draw; the shoe holds at most 52 * num_decks cards and never
\* runs empty.
C7_ShoeNeverEmpties == []C7_ShoeSize /\ [][C7_DrawStep]_vars

\* A draw has just been served from a rebuilt shoe.
C7_Witness ==
    /\ InTrial
    /\ hand_num >= 2
    /\ Len(cards) = 52 * cfg.num_decks - 1

(***************************************************************************)
(* Properties of the trials of a session.                                  *)
(***************************************************************************)
Trials == 1..Len(trials)

\* The arguments simulate_martingale and Shoe were given.
Params(c) ==
    <<c.bankroll_start, c.base_bet, c.bet_multiplier, c.num_decks,
      c.num_players, c.num_hands, c.dealer_hits_soft_17>>

\* The same, but for the number of hands.
ParamsButHands(c) ==
    <<c.bankroll_start, c.base_bet, c.bet_multiplier, c.num_decks,
      c.num_players, c.dealer_hits_soft_17>>

SingleRun(t) == t.cfg.num_iterations = 1
MonteCarlo(t) == t.cfg.num_iterations > 1

HasBust(df) == \E k \in 1..Len(df) : df[k].result = "BUST"

\* The trial stopped on BUST or on ruin.
StoppedEarly(df) ==
    df # <<>> /\ (df[Len(df)].result = "BUST" \/ df[Len(df)].bankroll <= 0)

IsPrefix(x, y) == Len(x) <= Len(y) /\ x = SubSeq(y, 1, Len(x))

\* C1: two single runs with the same seed and the same parameters return
\* the same ledger, row for row.
C1_Determinism ==
    \A a, b \in Trials :
        (/\ SingleRun(trials[a]) /\ SingleRun(trials[b])
         /\ trials[a].seed = trials[b].seed
         /\ Params(trials[a].cfg) = Params(trials[b].cfg))
            => trials[a].df = trials[b].df

\* C8: parameters outside what run_trial accepts are turned down before the
\* trial starts: no row is appended and no card is drawn.
C8_InvalidRejected ==
    (clicks > 0 /\ ~ValidConfig(cfg)) =>
        /\ records = <<>>
        /\ Table = <<>>

\* C9: the ledger of a Monte Carlo trial depends only on its derived seed
\* and the parameters: two such trials with the same derived seed and
\* parameters have the same ledger, whatever ran before them.
C9_TrialsIndependent ==
    \A a, b \in Trials :
        (/\ MonteCarlo(trials[a]) /\ MonteCarlo(trials[b])
         /\ trials[a].seed = trials[b].seed
         /\ Params(trials[a].cfg) = Params(trials[b].cfg))
            => trials[a].df = trials[b].df

\* C10: with the derived seed and the other parameters fixed, a Monte Carlo
\* trial that busts within N hands busts within N' >= N hands, and an
\* N-hand ledger that did not stop early is a prefix of the N'-hand one.
C10_BustMonotone ==
    \A a, b \in Trials :
        (/\ MonteCarlo(trials[a]) /\ MonteCarlo(trials[b])
         /\ trials[a].seed = trials[b].seed
         /\ ParamsButHands(trials[a].cfg) = ParamsButHands(trials[b].cfg)
         /\ trials[a].cfg.num_hands <= trials[b].cfg.num_hands)
            => /\ HasBust(trials[a].df) => HasBust(trials[b].df)
               /\ ~StoppedEarly(trials[a].df)
                     => IsPrefix(trials[a].df, trials[b].df)

(***************************************************************************)
(* Properties of the resolution of one hand.                               *)
(***************************************************************************)
\* The two cards a hand was dealt.
DealOf(hand) == SubSeq(hand, 1, 2)

\* The cards of the initial deal: two for the dealer and for every seat.
DealSize == 2 * (cfg.num_players + 1)

\* C11: a natural decides the hand at once.  Player's natural alone: win,
\* paid 1.5 x bet; dealer's alone: lose, 0; both: push, 0.  In each case
\* no card is drawn beyond the initial deal and both hands hold exactly two
\* cards when the hand is settled; a hand that goes on to the player's or
\* the dealer's loop has no natural.
C11_Naturals ==
    LET player_bj == is_blackjack(DealOf(player))
        dealer_bj == is_blackjack(DealOf(dealer))
    IN  /\ (pc = "settle" /\ (player_bj \/ dealer_bj)) =>
              /\ Len(player) = 2 /\ Len(dealer) = 2
              /\ Dealt = DealSize
              /\ (player_bj /\ ~dealer_bj) =>
                    /\ outcome.result = "win"
                    /\ 2 * outcome.payout = 3 * current_bet
              /\ (dealer_bj /\ ~player_bj) => outcome = Return("lose", 0)
              /\ (player_bj /\ dealer_bj) => outcome = Return("push", 0)
        /\ pc \in {"player", "dealer"} => ~player_bj /\ ~dealer_bj

\* A settled hand with both naturals, and nothing drawn after the deal.
C11_Witness ==
    /\ pc = "settle"
    /\ is_blackjack(player) /\ is_blackjack(dealer)
    /\ outcome.result = "push"
    /\ Len(cards) = Len(Deck) - DealSize

\* The card the next shoe.draw() returns.
NextCard == draw(cards, pyrand, cfg.num_decks).card

C12_PlayerInv ==
    /\ pc = "dealer" => hand_value(player) \in 17..21
    /\ Len(dealer) > 2 => hand_value(player) \in 17..21
    /\ (pc = "settle" /\ hand_value(player) > 21) =>
          /\ outcome = Return("lose", 0)
          /\ Len(dealer) = 2

C12_PlayerStep ==
    /\ pc = "player" =>
          IF hand_value(player) < 17
          THEN player' = Append(player, NextCard) /\ pc' = "player"
          ELSE player' = player /\ pc' # "player"
    /\ (Len(player) >= 2 /\ Len(player') > Len(player)) =>
          pc = "player" /\ hand_value(player) < 17

\* C12: without a natural the player draws exactly while the hand's value
\* is below 17: below 17 the next step is a draw onto the player's hand, at
\* 17 or more the loop is left, and the hand grows past the deal nowhere
\* else.  A player's value above 21 settles as lose with payout 0 and a
\* dealer's hand of the two dealt cards; whenever the dealer's loop is
\* reached, or the dealer has drawn, the player's value is in 17..21.
C12_PlayerLoop == []C12_PlayerInv /\ [][C12_PlayerStep]_vars

\* A player's hand that drew past the deal and bust, settled.
C12_Witness ==
    /\ pc = "settle"
    /\ Len(player) > 2
    /\ hand_value(player) > 21
    /\ outcome.result = "lose"

\* The dealer's condition to draw, as the rule is stated.
DrawsByRule ==
    \/ hand_value(dealer) < 17
    \/ /\ hand_value(dealer) = 17
       /\ is_soft_17(dealer)
       /\ cfg.dealer_hits_soft_17

\* The hand was decided by a natural.
ByNatural == is_blackjack(DealOf(player)) \/ is_blackjack(DealOf(dealer))

C13_DealerInv ==
    (pc = "settle" /\ ~ByNatural /\ hand_value(player) <= 21) =>
        /\ hand_value(dealer) >= 17
        /\ cfg.dealer_hits_soft_17 => ~is_soft_17(dealer)

C13_DealerStep ==
    /\ pc = "dealer" =>
          IF DrawsByRule
          THEN dealer' = Append(dealer, NextCard) /\ pc' = "dealer"
          ELSE dealer' = dealer /\ pc' = "settle"
    /\ (Len(dealer) >= 2 /\ Len(dealer') > Len(dealer)) =>
          /\ pc = "dealer"
          /\ DrawsByRule
          /\ ~cfg.dealer_hits_soft_17 => hand_value(dealer) < 17

\* C13: the dealer draws exactly while the value is below 17, or is 17 with
\* is_soft_17 true and the rule enabled: in the dealer's loop such a hand
\* is followed by one draw onto it and any other hand by the stand, and the
\* dealer's hand grows past the deal nowhere else.  With the rule disabled
\* the dealer never draws at 17 or more; a hand the dealer stood on has a
\* value of at least 17 and, with the rule enabled, is_soft_17 false.
C13_DealerLoop == []C13_DealerInv /\ [][C13_DealerStep]_vars

\* Rule enabled: the dealer has drawn on a hand with is_soft_17 true.
C13_Witness ==
    /\ pc = "dealer"
    /\ cfg.dealer_hits_soft_17
    /\ Len(dealer) > 2
    /\ is_soft_17(SubSeq(dealer, 1, Len(dealer) - 1))

\* The hand's total with every ace counted as 1.
HardTotal(hand) == SumValues(hand) - 10 * CountAces(hand)

\* The glossary's soft 17: the hand totals 17 only by counting an ace as
\* 11, so it could instead total 7.
SoftSeventeen(hand) ==
    /\ CountAces(hand) > 0
    /\ hand_value(hand) = 17
    /\ HardTotal(hand) = 7

\* C14: with the rule enabled the dealer never stands on a soft 17 of the
\* glossary: every dealer hand totalling 17 only by counting an ace as 11,
\* a hand with several aces included, is recognised by is_soft_17 in the
\* dealer's loop, and no hand the dealer stood on is one.
C14_NoStandOnSoft17 ==
    cfg.dealer_hits_soft_17 =>
        /\ (pc = "dealer" /\ SoftSeventeen(dealer)) => is_soft_17(dealer)
        /\ (pc = "settle" /\ ~ByNatural /\ hand_value(player) <= 21) =>
              ~SoftSeventeen(dealer)

\* C15: a hand that reaches the comparison is a win paid the bet when the
\* dealer's value exceeds 21, else a win paid the bet when the player's
\* value is the higher, a lose paid 0 when the dealer's is, a push paid 0
\* when they are equal.  On every path the result is win, lose or push and
\* the payout is never negative: 0 for lose and push, the bet or 1.5 x bet
\* for win, 1.5 x bet only for a player's natural.
C15_Outcome ==
    pc = "settle" =>
        LET p_val == hand_value(player)
            d_val == hand_value(dealer)
        IN  /\ outcome.result \in {"win", "lose", "push"}
            /\ outcome.payout >= 0
            /\ outcome.result \in {"lose", "push"} => outcome.payout = 0
            /\ outcome.result = "win" =>
                  \/ outcome.payout = current_bet
                  \/ /\ 2 * outcome.payout = 3 * current_bet
                     /\ is_blackjack(player)
            /\ (~ByNatural /\ p_val <= 21) =>
                  IF d_val > 21 THEN outcome = Return("win", current_bet)
                  ELSE IF p_val > d_val
                  THEN outcome = Return("win", current_bet)
                  ELSE IF d_val > p_val THEN outcome = Return("lose", 0)
                  ELSE outcome = Return("push", 0)

\* A raised bet won by the dealer's bust with the player's value below the
\* dealer's.
C15_Witness ==
    /\ pc = "settle"
    /\ current_bet > Halves(cfg.base_bet)
    /\ Len(dealer) > 2
    /\ hand_value(dealer) > 21
    /\ hand_value(player) < hand_value(dealer)
    /\ outcome = Return("win", current_bet)

\* The result as a function of the two hands and the bet alone.
OutcomeOf(p, d, bet) ==
    IF is_blackjack(DealOf(p)) /\ ~is_blackjack(DealOf(d))
    THEN Return("win", (3 * bet) \div 2)
    ELSE IF is_blackjack(DealOf(d)) /\ ~is_blackjack(DealOf(p))
    THEN Return("lose", 0)
    ELSE IF is_blackjack(DealOf(p)) /\ is_blackjack(DealOf(d))
    THEN Return("push", 0)
    ELSE IF hand_value(p) > 21 THEN Return("lose", 0)
    ELSE IF hand_value(d) > 21 THEN Return("win", bet)
    ELSE IF hand_value(p) > hand_value(d) THEN Return("win", bet)
    ELSE IF hand_value(p) < hand_value(d) THEN Return("lose", 0)
    ELSE Return("push", 0)

C16_DealInv ==
    /\ pc = "deal" => Dealt < DealSize /\ outcome = NoOutcome
    /\ pc = "naturals" =>
          /\ Dealt = DealSize
          /\ Len(dealer) = 2 /\ Len(player) = 2
          /\ outcome = NoOutcome
    /\ pc \in {"player", "dealer", "settle"} =>
          Len(other_players) = 2 * (cfg.num_players - 1)
    /\ pc = "settle" => outcome = OutcomeOf(player, dealer, current_bet)

C16_DealStep ==
    /\ pc = "deal" =>
          /\ IF Dealt < 2
             THEN /\ dealer' = Append(dealer, NextCard)
                  /\ UNCHANGED <<player, other_players>>
             ELSE IF Dealt < 4
             THEN /\ player' = Append(player, NextCard)
                  /\ UNCHANGED <<dealer, other_players>>
             ELSE /\ other_players' = Append(other_players, NextCard)
                  /\ UNCHANGED <<dealer, player>>
          /\ pc' = IF Dealt + 1 = DealSize THEN "naturals" ELSE "deal"
    /\ pc \in {"naturals", "player", "dealer", "settle"} =>
          UNCHANGED other_players

\* C16: every hand draws its initial deal in the order dealer, dealer,
\* player, player, then two cards for each other seat: exactly
\* 2 x (num_players + 1) cards before any natural is tested or any card is
\* hit.  The other seats draw nothing further, and the result is a function
\* of the dealer's and the tracked player's hands and the bet alone.
C16_DealOrder == []C16_DealInv /\ [][C16_DealStep]_vars

\* Six seats: ten cards went to the other seats and the tracked player has
\* hit since.
C16_Witness ==
    /\ pc = "settle"
    /\ cfg.num_players = 6
    /\ Len(other_players) = 10
    /\ Len(player) > 2

(***************************************************************************)
(* Properties of the valuation.                                            *)
(***************************************************************************)
\* The totals of a hand: each ace counted as 1 or as 11.
Totals(hand) == {HardTotal(hand) + 10 * k : k \in 0..CountAces(hand)}

\* The highest total not above 21, or the lowest total if there is none.
BestTotal(hand) ==
    LET good == {t \in Totals(hand) : t <= 21}
    IN  IF good # {}
        THEN CHOOSE t \in good : \A u \in good : u <= t
        ELSE HardTotal(hand)

Reverse(x) == [k \in 1..Len(x) |-> x[Len(x) + 1 - k]]

\* The n cards drawn one after another once i cards are left, as a hand.
Run(i, n) == Reverse(SubSeq(cards, i - n + 1, i))

\* Every run of up to MaxRun cards of the shoe.
Runs ==
    {Run(r[1], r[2]) :
        r \in {q \in (1..Len(cards)) \X (0..MaxRun) : q[2] <= q[1]}}

\* The hands on the table and, before a hand is dealt, those that runs of
\* the shoe's cards make.
Hands == {dealer, player} \cup IF pc = "hand" THEN Runs ELSE {}

\* C17: hand_value is the best total not above 21 that counting each ace
\* as 1 or as 11 can reach, or the lowest total when even that exceeds 21:
\* the value is at most 21 or every ace is counted as 1.
C17_BestTotal ==
    \A hand \in Hands :
        /\ hand_value(hand) = BestTotal(hand)
        /\ hand_value(hand) \in Totals(hand)
        /\ hand_value(hand) <= 21 \/ hand_value(hand) = HardTotal(hand)

\* A hand in play with more than one ace reduced.
C17_Witness ==
    /\ pc \in {"player", "dealer", "settle"}
    /\ \E hand \in {dealer, player} :
          /\ CountAces(hand) >= 2
          /\ SumValues(hand) - hand_value(hand) >= 20

\* C18: with a positive starting bankroll and a positive base bet the
\* bankroll is never negative, in the trial under way and in every row of
\* its ledger; a trial can end at exactly 0.
C18_BankrollNonNegative ==
    (cfg.bankroll_start > 0 /\ cfg.base_bet > 0) =>
        /\ InTrial => bankroll >= 0
        /\ \A k \in Rows : records[k].bankroll >= 0

\* A trial that a lost hand ended at exactly 0.
C18_Witness ==
    /\ pc = "return"
    /\ records # <<>>
    /\ LastRow.result = "lose"
    /\ LastRow.bankroll = 0
    /\ LastRow.bet = PrevBankroll(Len(records))

\* How many cards of the sequence x are the card c.
Copies(x, c) == Cardinality({k \in 1..Len(x) : x[k] = c})

\* C19: while a hand is resolved, the dealer's and the tracked player's
\* hands together never hold more copies of one (rank, suit) card than the
\* shoe has decks, a reshuffle by Shoe.draw() in mid-hand included.
C19_NoExtraCopies ==
    LET held == dealer \o player
    IN  \A k \in 1..Len(held) : Copies(held, held[k]) <= cfg.num_decks

(***************************************************************************)
(* Termination.                                                            *)
(***************************************************************************)
\* Most cards a hand can hold: a card is drawn onto a hand only below a
\* total, aces as 1, of 17, and every card adds at least 1 to it.
MaxHandCards == 17

C20_Shape ==
    /\ Len(player) <= MaxHandCards /\ Len(dealer) <= MaxHandCards
    /\ Len(records) <= cfg.num_hands
    /\ \A k \in Rows : records[k].hand = k
    /\ pc = "return" => Len(records) \in 1..cfg.num_hands

\* Every draw of the two loops raises the hand's total with aces as 1,
\* which was below 17.
C20_Draw ==
    /\ (pc = "player" /\ player' # player) =>
          /\ HardTotal(player) < 17
          /\ HardTotal(player') > HardTotal(player)
    /\ (pc = "dealer" /\ dealer' # dealer) =>
          /\ HardTotal(dealer) < 17
          /\ HardTotal(dealer') > HardTotal(dealer)

\* C20: every hand, once its deal starts, is resolved, and every trial,
\* once started, returns: the player's and the dealer's loop end after a
\* bounded number of draws, each draw raising the hand's total with aces as
\* 1 although hand_value need not rise; the ledger returned has between 1
\* and num_hands rows, numbered 1..k without gaps.
C20_Terminates ==
    /\ []C20_Shape
    /\ [][C20_Draw]_vars
    /\ (pc = "deal") ~> (pc = "settle")
    /\ (pc = "trial") ~> (pc = "return")

\* A returned ledger of num_hands rows, in the last hand of which a draw
\* did not raise the value of the hand it was added to.
C20_Witness ==
    /\ pc = "return"
    /\ Len(records) = cfg.num_hands
    /\ \E hand \in {dealer, player} :
          /\ Len(hand) > 2
          /\ hand_value(hand) <= hand_value(SubSeq(hand, 1, Len(hand) - 1))

=============================================================================
